---- MODULE Spec2Model ----
(***************************************************************************)
(* Gemini Image Editor: the App session state (image, history, cursor,     *)
(* log, mask, loading), the two asynchronous operations (file intake and   *)
(* the remote edit call) and the ImageDisplay mask canvas.                 *)
(*                                                                         *)
(* One action is one event handler run to completion, together with the    *)
(* re-render and the effects it triggers (React commits a handler's state  *)
(* updates in one batch).  An async handler is two actions: the part       *)
(* before its await, and its continuation, which reads the variables the   *)
(* callback closed over when it was created.                               *)
(*                                                                         *)
(* Guards are the code's own conditions: early returns, `disabled`         *)
(* attributes and conditional rendering.  Style classes are not guards:    *)
(* the loading overlay disables nothing.  The brush size and the download  *)
(* button write no state that is represented here.                         *)
(***************************************************************************)
EXTENDS Integers, Sequences, FiniteSets, TLC

VARIABLES
  image,         \* App: useState<ImageData | null>
  messages,      \* App: useState<ChatMessage[]>
  prompt,        \* App: useState('')
  loading,       \* App: useState(false)
  error,         \* App: useState<string | null>
  history,       \* App: useState<ImageData[]>
  historyIndex,  \* App: useState(-1)
  mask,          \* App: useState<ImageData | null>
  pending,       \* handleSubmitPrompt calls suspended at their await
  uploads,       \* handleImageUpload calls suspended at their await
  now,           \* Date.now()
  isDrawing,     \* ImageDisplay: useState(false)
  isBrushMode,   \* ImageDisplay: useState(false)
  isErasing,     \* ImageDisplay: useState(false)
  brushColor,    \* ImageDisplay: useState(MASK_COLORS[0])
  canvas,        \* pixels of the overlay canvas
  context,       \* 2d context state and current path of the overlay canvas
  strokeOver,    \* history variable: image displayed when the open stroke began
  maskOver,      \* history variable: strokeOver of the stroke that emitted mask
  submitOutcome, \* history variable: what the form's onSubmit did, when it is
                 \* the handler that ran last ("none" otherwise)
  settled,       \* history variable: how a submission settled, when its
                 \* continuation is the step that ran last
  commits,       \* history variable: number of results committed so far
  strokeMode,    \* history variable: erase mode or color selected when the
                 \* open stroke began ("none" while no stroke is open)
  stepped        \* history variable: history, cursor and image before an
                 \* undo or redo that moved the cursor, when it is the
                 \* handler that ran last

appVars == <<image, messages, prompt, loading, error, history, historyIndex, mask>>
asyncVars == <<pending, uploads, now>>
displayVars == <<isDrawing, isBrushMode, isErasing, brushColor, canvas, context>>
ghostVars == <<strokeOver, maskOver, submitOutcome, settled, commits, strokeMode,
               stepped>>
vars == <<appVars, asyncVars, displayVars, ghostVars>>

----------------------------------------------------------------------------
(* Bounds *)

MaxSubmits == 2        \* submissions issued in one behaviour
MaxUploads == 2        \* file intakes in flight at once
NumCells == 2          \* regions the overlay surface is divided into
MaskSubmits == 1       \* submissions issued in one behaviour of SpecMask

----------------------------------------------------------------------------
(* Values *)

\* null of an object-typed state (ImageData | null)
null == [null |-> TRUE]

\* null of the string-typed error state
noError == "null"

\* settled while the step that ran last is not a settlement
noSettled == [n |-> 0, ok |-> FALSE, moved |-> FALSE, replaced |-> FALSE]

\* stepped while the step that ran last is not an undo or redo that moved
\* the cursor
noStep == [kind |-> "none", after |-> "none", history |-> <<>>, historyIndex |-> -1,
           image |-> null]

\* Texts typed into the prompt input, as sequences of characters: the empty
\* text, a text of white space, and an instruction with white space around it.
Prompts == {<<>>, <<" ", " ">>, <<" ", "a", " ">>}

\* Files the user can pick: two decodable rasters and one undecodable file.
Files == {"fileA", "fileB", "corrupt"}

Cells == 1..NumCells

MASK_COLORS == <<"red", "blue", "green">>

Transparent == "transparent"

ImageData(base64, mimeType) == [base64 |-> base64, mimeType |-> mimeType]

----------------------------------------------------------------------------
(* JavaScript helpers *)

Min(a, b) == IF a < b THEN a ELSE b
Max(a, b) == IF a > b THEN a ELSE b

\* Array.prototype.slice(start, end): negative indices count from the end.
Slice(s, start, end) ==
  LET n == Len(s)
      from == IF start < 0 THEN Max(n + start, 0) ELSE Min(start, n)
      to == IF end < 0 THEN Max(n + end, 0) ELSE Min(end, n)
  IN SubSeq(s, from + 1, to)

\* String.prototype.trim()
RECURSIVE TrimStart(_)
TrimStart(s) ==
  IF s # <<>> /\ Head(s) = " " THEN TrimStart(Tail(s)) ELSE s

RECURSIVE TrimEnd(_)
TrimEnd(s) ==
  IF s # <<>> /\ s[Len(s)] = " " THEN TrimEnd(SubSeq(s, 1, Len(s) - 1)) ELSE s

Trim(s) == TrimEnd(TrimStart(s))

\* history[i] with the 0-based index of the source
At(h, i) == h[i + 1]

----------------------------------------------------------------------------
(* Overlay canvas.  The surface is divided into NumCells regions; a pixel  *)
(* is transparent or carries the style last painted on it.                 *)

BlankCanvas == [c \in Cells |-> Transparent]

\* State of a fresh 2d context: default composite operation and stroke
\* style, empty current path.  pos = 0 means the path has no point yet;
\* cells are the regions covered by the path's line segments.
DefaultContext ==
  [globalCompositeOperation |-> "source-over", strokeStyle |-> "#000000",
   pos |-> 0, cells |-> {}]

Segment(a, b) == {c \in Cells : Min(a, b) <= c /\ c <= Max(a, b)}

\* context.beginPath(); context.moveTo(x, y)
BeginPathMoveTo(ctx, p) == [ctx EXCEPT !.pos = p, !.cells = {}]

\* context.lineTo(x, y): on an empty path it only sets the first point.
LineTo(ctx, p) ==
  IF ctx.pos = 0 THEN [ctx EXCEPT !.pos = p]
  ELSE [ctx EXCEPT !.pos = p, !.cells = @ \cup Segment(ctx.pos, p)]

\* The canvases context.stroke() can leave: the whole current path is
\* painted.  source-over puts the stroke style on the covered cells;
\* destination-out removes what is there, completely with an opaque stroke
\* style, and possibly only in part with a translucent one (MASK_COLORS
\* have alpha 0.7), so each covered cell either keeps its mark or is emptied.
StrokeOutcomes(cv, ctx) ==
  IF ctx.globalCompositeOperation = "source-over"
  THEN {[c \in Cells |-> IF c \in ctx.cells THEN ctx.strokeStyle ELSE cv[c]]}
  ELSE IF ctx.strokeStyle = DefaultContext.strokeStyle
  THEN {[c \in Cells |-> IF c \in ctx.cells THEN Transparent ELSE cv[c]]}
  ELSE {[c \in Cells |-> IF c \in gone THEN Transparent ELSE cv[c]] :
          gone \in SUBSET ctx.cells}

\* canvas.toDataURL(): a data URL whose payload encodes the pixels
toDataURL(cv) == <<"data:image/png;base64", cv>>

\* dataUrl.split(',')[1]
Base64Of(dataUrl) == dataUrl[2]

IsFullyTransparent(cv) == \A c \in Cells : cv[c] = Transparent

----------------------------------------------------------------------------
(* editImageWithGemini *)

TextPart(t) == [text |-> t]
InlinePart(d) == [inlineData |-> d]

\* What ai.models.generateContent can do: throw (transport, auth), or
\* return a response whose first candidate carries a list of parts.
\* The service answers request n with the payload <<"edit", n>>; a second
\* image part or a second candidate carries <<"alt", n>>.
Responses(n) ==
  {[kind |-> "throw", candidates |-> <<>>]} \cup
  {[kind |-> "response", candidates |-> cs] :
     cs \in {<<>>,
             << <<>> >>,
             << <<TextPart("done")>> >>,
             << <<InlinePart(<<"edit", n>>)>> >>,
             << <<TextPart("done"), InlinePart(<<"edit", n>>)>> >>,
             << <<InlinePart(<<"edit", n>>), InlinePart(<<"alt", n>>)>> >>,
             << <<TextPart("done")>>, <<InlinePart(<<"alt", n>>)>> >>}}

\* The parts of the request
RequestParts(currentPrompt, img, msk) ==
  <<InlinePart(img)>> \o
  (IF msk # null THEN <<InlinePart(msk)>> ELSE <<>>) \o
  <<TextPart(IF msk # null THEN <<"mask task", currentPrompt>> ELSE currentPrompt)>>

\* Variant: the parts are taken from the last candidate.
LastCandidateParts(resp) ==
  IF Len(resp.candidates) = 0 THEN <<>> ELSE resp.candidates[Len(resp.candidates)]

\* response.candidates?.[0]?.content?.parts || []
FirstCandidateParts(resp) ==
  IF Len(resp.candidates) = 0 THEN <<>> ELSE resp.candidates[1]

RECURSIVE FirstInlineData(_)
FirstInlineData(parts) ==
  IF parts = <<>> THEN null
  ELSE IF "inlineData" \in DOMAIN Head(parts) THEN Head(parts)
  ELSE FirstInlineData(Tail(parts))

RemoteError == "Failed to process the image edit. Please try again."

\* The promise's settlement: resolved with the payload, or rejected with
\* the one error message of the catch block.
editImageWithGemini(currentPrompt, img, msk, resp) ==
  LET found == IF resp.kind = "throw" THEN null
               ELSE FirstInlineData(FirstCandidateParts(resp))
  IN IF found = null
     THEN [ok |-> FALSE, message |-> RemoteError, data |-> <<>>]
     ELSE [ok |-> TRUE, message |-> "", data |-> found.inlineData]

----------------------------------------------------------------------------
(* fileToData *)

\* Decodes the file and re-encodes it as PNG; rejects when it cannot.
fileToData(file) ==
  IF file = "corrupt" THEN null
  ELSE ImageData(<<"file", IF file = "fileA" THEN 1 ELSE 2>>, "image/png")

LoadError == "Failed to load image. Please try another file."
NoImageError == "Please upload an image before submitting a prompt."

----------------------------------------------------------------------------
(* Initial state: the useState initial values, nothing in flight. *)

Init ==
  /\ image = null
  /\ messages = <<>>
  /\ prompt = <<>>
  /\ loading = FALSE
  /\ error = noError
  /\ history = <<>>
  /\ historyIndex = -1
  /\ mask = null
  /\ pending = {}
  /\ uploads = [f \in Files |-> 0]
  /\ now = 1
  /\ isDrawing = FALSE
  /\ isBrushMode = FALSE
  /\ isErasing = FALSE
  /\ brushColor = MASK_COLORS[1]
  /\ canvas = BlankCanvas
  /\ context = DefaultContext
  /\ strokeOver = null
  /\ maskOver = null
  /\ submitOutcome = "none"
  /\ settled = noSettled
  /\ commits = 0
  /\ strokeMode = "none"
  /\ stepped = noStep

----------------------------------------------------------------------------
(* Effects of ImageDisplay that run when the image prop changes.           *)
(* Every handler that calls setImage installs an object that is not the    *)
(* current one (a fresh object on upload and commit, another history entry *)
(* on undo and redo, null on clear), so both effects run each time:        *)
(* clearCanvas() and onMaskChange(null), then a new ResizeObserver is      *)
(* attached.  clearRect() empties the bitmap and leaves the context as it  *)
(* is: composite operation, stroke style and current path are kept.  The   *)
(* observer's notifications come later, as steps of their own (Resize).    *)

\* Variant: an image change leaves the mask as it is.
ImageEffectsKeepMask ==
  /\ canvas' = BlankCanvas
  /\ UNCHANGED <<context, mask, maskOver>>

ImageEffects ==
  /\ canvas' = BlankCanvas
  /\ mask' = null
  /\ maskOver' = null
  /\ UNCHANGED context

\* The image becomes null: the canvas element is unmounted, the effect
\* finds no canvas to clear and calls onMaskChange(null).  The element
\* mounted with the next image is a new one, blank and with a new context.
CanvasUnmounted ==
  /\ canvas' = BlankCanvas
  /\ context' = DefaultContext
  /\ mask' = null
  /\ maskOver' = null

----------------------------------------------------------------------------
(* App handlers *)

\* <input onChange={(e) => setPrompt(e.target.value)}
\*        disabled={!imageLoaded || loading} />
SetPrompt(text) ==
  /\ submitOutcome' = "none"
  /\ settled' = noSettled
  /\ stepped' = noStep
  /\ UNCHANGED <<commits, strokeMode>>
  /\ image # null
  /\ ~loading
  /\ prompt' = text
  /\ UNCHANGED <<image, messages, loading, error, history, historyIndex, mask>>
  /\ UNCHANGED <<asyncVars, displayVars, strokeOver, maskOver>>

\* The close button of the error banner: onClick={() => setError(null)}
DismissError ==
  /\ submitOutcome' = "none"
  /\ settled' = noSettled
  /\ stepped' = noStep
  /\ UNCHANGED <<commits, strokeMode>>
  /\ error # noError
  /\ error' = noError
  /\ UNCHANGED <<image, messages, prompt, loading, history, historyIndex, mask>>
  /\ UNCHANGED <<asyncVars, displayVars, strokeOver, maskOver>>

RECURSIVE SumOver(_, _)
SumOver(f, S) ==
  IF S = {} THEN 0
  ELSE LET x == CHOOSE y \in S : TRUE IN f[x] + SumOver(f, S \ {x})

InFlightUploads == SumOver(uploads, Files)

\* handleFileChange / handleDrop -> handleImageUpload, up to its await.
\* The file input and the drop label are rendered only while there is no
\* image.
handleImageUpload(file) ==
  /\ submitOutcome' = "none"
  /\ settled' = noSettled
  /\ stepped' = noStep
  /\ UNCHANGED <<commits, strokeMode>>
  /\ image = null
  /\ InFlightUploads < MaxUploads
  /\ loading' = TRUE
  /\ error' = noError
  /\ uploads' = [uploads EXCEPT ![file] = @ + 1]
  /\ UNCHANGED <<image, messages, prompt, history, historyIndex, mask>>
  /\ UNCHANGED <<pending, now, displayVars, strokeOver, maskOver>>

\* Variant: the decoded image is appended to the history in place of
\* replacing it.
UploadSettledAppends(file) ==
  /\ submitOutcome' = "none"
  /\ settled' = noSettled
  /\ stepped' = noStep
  /\ UNCHANGED <<commits, strokeMode>>
  /\ uploads[file] > 0
  /\ uploads' = [uploads EXCEPT ![file] = @ - 1]
  /\ LET imageData == fileToData(file)
     IN IF imageData # null
        THEN /\ image' = imageData
             /\ history' = Append(history, imageData)
             /\ historyIndex' = Len(history)
             /\ messages' = <<>>
             /\ ImageEffects
             /\ UNCHANGED error
        ELSE /\ error' = LoadError
             /\ UNCHANGED <<image, history, historyIndex, messages, mask>>
             /\ UNCHANGED <<canvas, context, maskOver>>
  /\ loading' = FALSE
  /\ UNCHANGED <<prompt, pending, now>>
  /\ UNCHANGED <<isDrawing, isBrushMode, isErasing, brushColor, strokeOver>>

\* handleImageUpload after its await: try / catch / finally
UploadSettled(file) ==
  /\ submitOutcome' = "none"
  /\ settled' = noSettled
  /\ stepped' = noStep
  /\ UNCHANGED <<commits, strokeMode>>
  /\ uploads[file] > 0
  /\ uploads' = [uploads EXCEPT ![file] = @ - 1]
  /\ LET imageData == fileToData(file)
     IN IF imageData # null
        THEN /\ image' = imageData
             /\ history' = <<imageData>>
             /\ historyIndex' = 0
             /\ messages' = <<>>
             /\ ImageEffects
             /\ UNCHANGED error
        ELSE /\ error' = LoadError
             /\ UNCHANGED <<image, history, historyIndex, messages, mask>>
             /\ UNCHANGED <<canvas, context, maskOver>>
  /\ loading' = FALSE
  /\ UNCHANGED <<prompt, pending, now>>
  /\ UNCHANGED <<isDrawing, isBrushMode, isErasing, brushColor, strokeOver>>

\* handleSubmitPrompt up to its await.  The continuation closes over the
\* image, history, historyIndex and mask of the render that created the
\* callback, which is the current render when the form is submitted.
handleSubmitPrompt(currentPrompt) ==
  IF image = null
  THEN /\ error' = NoImageError
       /\ submitOutcome' = "rejected"
       /\ settled' = noSettled
       /\ stepped' = noStep
       /\ UNCHANGED <<commits, strokeMode>>
       /\ UNCHANGED <<image, messages, prompt, loading, history, historyIndex, mask>>
       /\ UNCHANGED <<asyncVars, displayVars, strokeOver, maskOver>>
  ELSE /\ now <= MaxSubmits
       /\ submitOutcome' = "issued"
       /\ settled' = noSettled
       /\ stepped' = noStep
       /\ UNCHANGED <<commits, strokeMode>>
       /\ loading' = TRUE
       /\ error' = noError
       /\ prompt' = <<>>
       /\ LET newMessage == [id |-> ToString(now), role |-> "user", content |-> currentPrompt]
          IN /\ messages' = Append(messages, newMessage)
             /\ pending' = pending \cup
                  {[n |-> now, newMessage |-> newMessage, currentPrompt |-> currentPrompt,
                    image |-> image, history |-> history,
                    historyIndex |-> historyIndex, mask |-> mask]}
       /\ now' = now + 1
       /\ UNCHANGED <<image, history, historyIndex, mask>>
       /\ UNCHANGED <<uploads, displayVars, strokeOver, maskOver>>

\* ChatPanel.handleSubmit: the form's onSubmit
handleSubmit ==
  IF Trim(prompt) # <<>> /\ ~loading /\ image # null
  THEN handleSubmitPrompt(prompt)
  ELSE /\ submitOutcome' = "ignored"
       /\ settled' = noSettled
       /\ stepped' = noStep
       /\ UNCHANGED <<commits, strokeMode>>
       /\ UNCHANGED <<appVars, asyncVars, displayVars, strokeOver, maskOver>>

\* Variant: the new entry is appended without dropping the redo branch.
NewHistoryNoTruncate(h, i, newImageData) == h \o <<newImageData>>

\* [...history.slice(0, historyIndex + 1), newImageData], with the history
\* and historyIndex of the closure
NewHistory(h, i, newImageData) == Slice(h, 0, i + 1) \o <<newImageData>>

\* Variant: the cursor is set to the length, one past the last entry.
NewHistoryIndexOffByOne(newHistory) == Len(newHistory)

\* setHistoryIndex(newHistory.length - 1)
NewHistoryIndex(newHistory) == Len(newHistory) - 1

\* setMessages(prev => prev.slice(0, -1))
RollbackMessages(prev) == Slice(prev, 0, -1)

\* Variant: the result is committed at the cursor of the current render.
SubmitSucceededAtCurrentCursor(req, newImageBase64) ==
  LET newImageData == [req.image EXCEPT !.base64 = newImageBase64]
      newHistory == NewHistory(history, historyIndex, newImageData)
  IN /\ history' = newHistory
     /\ historyIndex' = NewHistoryIndex(newHistory)
     /\ image' = newImageData
     /\ ImageEffects
     /\ UNCHANGED <<error, messages>>

\* The try block after the await
SubmitSucceeded(req, newImageBase64) ==
  LET newImageData == [req.image EXCEPT !.base64 = newImageBase64]
      newHistory == NewHistory(req.history, req.historyIndex, newImageData)
  IN /\ history' = newHistory
     /\ historyIndex' = NewHistoryIndex(newHistory)
     /\ image' = newImageData
     /\ ImageEffects
     /\ UNCHANGED <<error, messages>>

\* Variant: the catch block also pops the last history entry.
SubmitFailedPopsHistory(errorMessage) ==
  /\ error' = errorMessage
  /\ messages' = RollbackMessages(messages)
  /\ history' = Slice(history, 0, -1)
  /\ UNCHANGED <<image, historyIndex, mask>>
  /\ UNCHANGED <<canvas, context, maskOver>>

\* The catch block
SubmitFailed(errorMessage) ==
  /\ error' = errorMessage
  /\ messages' = RollbackMessages(messages)
  /\ UNCHANGED <<image, history, historyIndex, mask>>
  /\ UNCHANGED <<canvas, context, maskOver>>

\* Variant: setLoading(false) is the last statement of the try block
\* instead of the finally block.
SubmitSettledLoadingInTry(req, resp) ==
  /\ submitOutcome' = "none"
  /\ req \in pending
  /\ pending' = pending \ {req}
  /\ LET r == editImageWithGemini(req.currentPrompt, req.image, req.mask, resp)
     IN /\ IF r.ok THEN SubmitSucceeded(req, r.data) ELSE SubmitFailed(r.message)
        /\ settled' = [n |-> req.n, ok |-> r.ok,
                       moved |-> history = req.history /\ historyIndex # req.historyIndex,
                       replaced |-> history # req.history]
        /\ commits' = IF r.ok THEN commits + 1 ELSE commits
        /\ loading' = IF r.ok THEN FALSE ELSE loading
  /\ UNCHANGED strokeMode
  /\ stepped' = noStep
  /\ UNCHANGED <<prompt, uploads, now>>
  /\ UNCHANGED <<isDrawing, isBrushMode, isErasing, brushColor, strokeOver>>

\* handleSubmitPrompt after its await: try / catch / finally
SubmitSettled(req, resp) ==
  /\ submitOutcome' = "none"
  /\ req \in pending
  /\ pending' = pending \ {req}
  /\ LET r == editImageWithGemini(req.currentPrompt, req.image, req.mask, resp)
     IN /\ IF r.ok THEN SubmitSucceeded(req, r.data) ELSE SubmitFailed(r.message)
        /\ settled' = [n |-> req.n, ok |-> r.ok,
                       moved |-> history = req.history /\ historyIndex # req.historyIndex,
                       replaced |-> history # req.history]
        /\ commits' = IF r.ok THEN commits + 1 ELSE commits
  /\ UNCHANGED strokeMode
  /\ stepped' = noStep
  /\ loading' = FALSE
  /\ UNCHANGED <<prompt, uploads, now>>
  /\ UNCHANGED <<isDrawing, isBrushMode, isErasing, brushColor, strokeOver>>

canRedo == historyIndex < Len(history) - 1

\* Variant: the undo affordance is also on at the first entry.
canUndoOffByOne == historyIndex >= 0

canUndo == historyIndex > 0

\* Variant: undo moves the cursor and forgets setImage.
handleUndoKeepsImage ==
  /\ submitOutcome' = "none"
  /\ settled' = noSettled
  /\ stepped' = IF historyIndex > 0
                THEN [kind |-> "undo", after |-> stepped.kind, history |-> history,
                      historyIndex |-> historyIndex, image |-> image]
                ELSE noStep
  /\ UNCHANGED <<commits, strokeMode>>
  /\ image # null
  /\ IF historyIndex > 0
     THEN historyIndex' = historyIndex - 1
     ELSE UNCHANGED historyIndex
  /\ UNCHANGED <<image, mask, canvas, context, maskOver>>
  /\ UNCHANGED <<messages, prompt, loading, error, history>>
  /\ UNCHANGED <<asyncVars, isDrawing, isBrushMode, isErasing, brushColor, strokeOver>>

\* The toolbar (undo, redo, brush, download, clear image) is rendered only
\* while there is an image.
handleUndo ==
  /\ submitOutcome' = "none"
  /\ settled' = noSettled
  /\ stepped' = IF historyIndex > 0
                THEN [kind |-> "undo", after |-> stepped.kind, history |-> history,
                      historyIndex |-> historyIndex, image |-> image]
                ELSE noStep
  /\ UNCHANGED <<commits, strokeMode>>
  /\ image # null
  /\ IF historyIndex > 0
     THEN LET newIndex == historyIndex - 1
          IN /\ historyIndex' = newIndex
             /\ image' = At(history, newIndex)
             /\ ImageEffects
     ELSE UNCHANGED <<historyIndex, image, mask, canvas, context, maskOver>>
  /\ UNCHANGED <<messages, prompt, loading, error, history>>
  /\ UNCHANGED <<asyncVars, isDrawing, isBrushMode, isErasing, brushColor, strokeOver>>

\* Variant: redo moves the cursor to the last entry.
handleRedoToLast ==
  /\ submitOutcome' = "none"
  /\ settled' = noSettled
  /\ stepped' = IF historyIndex < Len(history) - 1
                THEN [kind |-> "redo", after |-> stepped.kind, history |-> history,
                      historyIndex |-> historyIndex, image |-> image]
                ELSE noStep
  /\ UNCHANGED <<commits, strokeMode>>
  /\ image # null
  /\ IF historyIndex < Len(history) - 1
     THEN LET newIndex == Len(history) - 1
          IN /\ historyIndex' = newIndex
             /\ image' = At(history, newIndex)
             /\ ImageEffects
     ELSE UNCHANGED <<historyIndex, image, mask, canvas, context, maskOver>>
  /\ UNCHANGED <<messages, prompt, loading, error, history>>
  /\ UNCHANGED <<asyncVars, isDrawing, isBrushMode, isErasing, brushColor, strokeOver>>

handleRedo ==
  /\ submitOutcome' = "none"
  /\ settled' = noSettled
  /\ stepped' = IF historyIndex < Len(history) - 1
                THEN [kind |-> "redo", after |-> stepped.kind, history |-> history,
                      historyIndex |-> historyIndex, image |-> image]
                ELSE noStep
  /\ UNCHANGED <<commits, strokeMode>>
  /\ image # null
  /\ IF historyIndex < Len(history) - 1
     THEN LET newIndex == historyIndex + 1
          IN /\ historyIndex' = newIndex
             /\ image' = At(history, newIndex)
             /\ ImageEffects
     ELSE UNCHANGED <<historyIndex, image, mask, canvas, context, maskOver>>
  /\ UNCHANGED <<messages, prompt, loading, error, history>>
  /\ UNCHANGED <<asyncVars, isDrawing, isBrushMode, isErasing, brushColor, strokeOver>>

\* Variant: clearing the image forgets setHistoryIndex(-1).
handleClearImageKeepsIndex ==
  /\ submitOutcome' = "none"
  /\ settled' = noSettled
  /\ stepped' = noStep
  /\ UNCHANGED <<commits, strokeMode>>
  /\ image # null
  /\ image' = null
  /\ messages' = <<>>
  /\ history' = <<>>
  /\ error' = noError
  /\ CanvasUnmounted
  /\ UNCHANGED <<prompt, loading, historyIndex>>
  /\ UNCHANGED <<asyncVars, isDrawing, isBrushMode, isErasing, brushColor, strokeOver>>

handleClearImage ==
  /\ submitOutcome' = "none"
  /\ settled' = noSettled
  /\ stepped' = noStep
  /\ UNCHANGED <<commits, strokeMode>>
  /\ image # null
  /\ image' = null
  /\ messages' = <<>>
  /\ history' = <<>>
  /\ historyIndex' = -1
  /\ error' = noError
  /\ CanvasUnmounted
  /\ UNCHANGED <<prompt, loading>>
  /\ UNCHANGED <<asyncVars, isDrawing, isBrushMode, isErasing, brushColor, strokeOver>>

----------------------------------------------------------------------------
(* ImageDisplay handlers.  The canvas is rendered only while there is an   *)
(* image, and so are its pointer and touch listeners.                      *)

\* onMouseDown / onTouchStart
startDrawing(p) ==
  /\ submitOutcome' = "none"
  /\ settled' = noSettled
  /\ stepped' = noStep
  /\ UNCHANGED commits
  /\ image # null
  /\ IF ~isBrushMode
     THEN UNCHANGED <<isDrawing, context, strokeOver, strokeMode>>
     ELSE /\ isDrawing' = TRUE
          /\ strokeMode' = IF isErasing THEN "erase" ELSE brushColor
          /\ context' = BeginPathMoveTo(
                IF isErasing
                THEN [context EXCEPT !.globalCompositeOperation = "destination-out"]
                ELSE [context EXCEPT !.globalCompositeOperation = "source-over",
                                     !.strokeStyle = brushColor],
                p)
          /\ strokeOver' = image
  /\ UNCHANGED <<appVars, asyncVars, isBrushMode, isErasing, brushColor, canvas, maskOver>>

\* Variant: a move paints whenever a stroke is open, in brush mode or not.
drawIgnoresBrushMode(p) ==
  /\ submitOutcome' = "none"
  /\ settled' = noSettled
  /\ stepped' = noStep
  /\ UNCHANGED <<commits, strokeMode>>
  /\ image # null
  /\ IF ~isDrawing
     THEN UNCHANGED <<context, canvas>>
     ELSE /\ context' = LineTo(context, p)
          /\ canvas' \in StrokeOutcomes(canvas, LineTo(context, p))
  /\ UNCHANGED <<appVars, asyncVars, isDrawing, isBrushMode, isErasing, brushColor>>
  /\ UNCHANGED <<strokeOver, maskOver>>

\* onMouseMove / onTouchMove
draw(p) ==
  /\ submitOutcome' = "none"
  /\ settled' = noSettled
  /\ stepped' = noStep
  /\ UNCHANGED <<commits, strokeMode>>
  /\ image # null
  /\ IF ~isDrawing \/ ~isBrushMode
     THEN UNCHANGED <<context, canvas>>
     ELSE /\ context' = LineTo(context, p)
          /\ canvas' \in StrokeOutcomes(canvas, LineTo(context, p))
  /\ UNCHANGED <<appVars, asyncVars, isDrawing, isBrushMode, isErasing, brushColor>>
  /\ UNCHANGED <<strokeOver, maskOver>>

\* onMouseUp / onMouseLeave / onTouchEnd.  closePath() paints nothing and
\* the next stroke starts with beginPath(), so it is not represented.
stopDrawing ==
  /\ submitOutcome' = "none"
  /\ settled' = noSettled
  /\ stepped' = noStep
  /\ UNCHANGED commits
  /\ image # null
  /\ IF ~isDrawing
     THEN UNCHANGED <<isDrawing, mask, maskOver, strokeOver, strokeMode>>
     ELSE /\ isDrawing' = FALSE
          /\ strokeMode' = "none"
          /\ mask' = ImageData(Base64Of(toDataURL(canvas)), "image/png")
          /\ maskOver' = strokeOver
          /\ strokeOver' = null
  /\ UNCHANGED <<image, messages, prompt, loading, error, history, historyIndex>>
  /\ UNCHANGED <<asyncVars, isBrushMode, isErasing, brushColor, canvas, context>>

\* The brush controls are rendered only in brush mode.
handleClearMask ==
  /\ submitOutcome' = "none"
  /\ settled' = noSettled
  /\ stepped' = noStep
  /\ UNCHANGED <<commits, strokeMode>>
  /\ image # null
  /\ isBrushMode
  /\ canvas' = BlankCanvas
  /\ mask' = null
  /\ maskOver' = null
  /\ UNCHANGED <<image, messages, prompt, loading, error, history, historyIndex>>
  /\ UNCHANGED <<asyncVars, isDrawing, isBrushMode, isErasing, brushColor, context, strokeOver>>

toggleBrushMode ==
  /\ submitOutcome' = "none"
  /\ settled' = noSettled
  /\ stepped' = noStep
  /\ UNCHANGED <<commits, strokeMode>>
  /\ image # null
  /\ LET newMode == ~isBrushMode
     IN /\ isBrushMode' = newMode
        /\ isErasing' = IF newMode THEN FALSE ELSE isErasing
  /\ UNCHANGED <<appVars, asyncVars, isDrawing, brushColor, canvas, context>>
  /\ UNCHANGED <<strokeOver, maskOver>>

\* Eraser button: onClick={() => setIsErasing(true)}
EnableErase ==
  /\ submitOutcome' = "none"
  /\ settled' = noSettled
  /\ stepped' = noStep
  /\ UNCHANGED <<commits, strokeMode>>
  /\ image # null
  /\ isBrushMode
  /\ isErasing' = TRUE
  /\ UNCHANGED <<appVars, asyncVars, isDrawing, isBrushMode, brushColor, canvas, context>>
  /\ UNCHANGED <<strokeOver, maskOver>>

\* Color button: onClick={() => { setBrushColor(color); setIsErasing(false); }}
SelectColor(color) ==
  /\ submitOutcome' = "none"
  /\ settled' = noSettled
  /\ stepped' = noStep
  /\ UNCHANGED <<commits, strokeMode>>
  /\ image # null
  /\ isBrushMode
  /\ brushColor' = color
  /\ isErasing' = FALSE
  /\ UNCHANGED <<appVars, asyncVars, isDrawing, isBrushMode, canvas, context>>
  /\ UNCHANGED <<strokeOver, maskOver>>

\* The ResizeObserver callback, run for the first notification after
\* observe() and for every later change of the size of the image box:
\* assigning canvas.width / canvas.height empties the bitmap and resets the
\* context.
Resize ==
  /\ submitOutcome' = "none"
  /\ settled' = noSettled
  /\ stepped' = noStep
  /\ UNCHANGED <<commits, strokeMode>>
  /\ image # null
  /\ canvas' = BlankCanvas
  /\ context' = DefaultContext
  /\ UNCHANGED <<appVars, asyncVars, isDrawing, isBrushMode, isErasing, brushColor>>
  /\ UNCHANGED <<strokeOver, maskOver>>

----------------------------------------------------------------------------

\* The answers of the service the session is run against: a transport
\* failure, a response without an image, a response with one.
SessionResponses(n) ==
  {[kind |-> "throw", candidates |-> <<>>],
   [kind |-> "response", candidates |-> << <<TextPart("done")>> >>],
   [kind |-> "response", candidates |-> << <<TextPart("done"), InlinePart(<<"edit", n>>)>> >>]}

\* The session: App's handlers and the two asynchronous operations
SessionNext ==
  \/ \E text \in Prompts : SetPrompt(text)
  \/ DismissError
  \/ \E file \in Files : handleImageUpload(file)
  \/ \E file \in Files : UploadSettled(file)
  \/ handleSubmit
  \/ \E req \in pending : \E resp \in SessionResponses(req.n) : SubmitSettled(req, resp)
  \/ handleUndo
  \/ handleRedo
  \/ handleClearImage

\* The mask canvas: ImageDisplay's handlers
DisplayNext ==
  \/ \E p \in Cells : startDrawing(p)
  \/ \E p \in Cells : draw(p)
  \/ stopDrawing
  \/ handleClearMask
  \/ toggleBrushMode
  \/ EnableErase
  \/ \E i \in DOMAIN MASK_COLORS : SelectColor(MASK_COLORS[i])
  \/ Resize

Next == SessionNext \/ DisplayNext

Spec == Init /\ [][Next]_vars

\* The session alone: nobody draws.
SpecSession == Init /\ [][SessionNext]_vars

\* The remote call of some request in flight answers or fails.
RemoteResponds ==
  \E req \in pending : \E resp \in SessionResponses(req.n) : SubmitSettled(req, resp)

\* The FileReader of some intake in flight calls onload or onerror.
FileReaderResponds == \E file \in Files : UploadSettled(file)

\* The session with one instruction, one readable file and the unreadable
\* one
ResolveNext ==
  \/ SetPrompt(<<" ", "a", " ">>)
  \/ DismissError
  \/ \E file \in {"fileA", "corrupt"} : handleImageUpload(file)
  \/ FileReaderResponds
  \/ handleSubmit
  \/ RemoteResponds
  \/ handleUndo
  \/ handleRedo
  \/ handleClearImage

\* That session when every awaited promise settles: generateContent resolves
\* or rejects, and fileToData resolves or rejects.
SpecResolve ==
  /\ Init
  /\ [][ResolveNext]_vars
  /\ WF_vars(RemoteResponds)
  /\ WF_vars(FileReaderResponds)

\* The session with one file and one instruction: upload, edit, navigate
NavigateNext ==
  \/ handleImageUpload("fileA")
  \/ UploadSettled("fileA")
  \/ SetPrompt(<<" ", "a", " ">>)
  \/ handleSubmit
  \/ RemoteResponds
  \/ handleUndo
  \/ handleRedo
  \/ handleClearImage

SpecNavigate == Init /\ [][NavigateNext]_vars

----------------------------------------------------------------------------
(* The session and the mask canvas together, with the inputs narrowed: the *)
(* service either fails or answers with one image, the instruction is the  *)
(* same each time, one color is used and the pointer stays in the first    *)
(* region of the overlay.                                                  *)

MaskResponses(n) ==
  {[kind |-> "throw", candidates |-> <<>>],
   [kind |-> "response", candidates |-> << <<InlinePart(<<"edit", n>>)>> >>]}

\* What the user does with the session besides choosing a file
MaskEditNext ==
  \/ SetPrompt(<<" ", "a", " ">>)
  \/ (now <= MaskSubmits /\ handleSubmit)
  \/ \E req \in pending : \E resp \in MaskResponses(req.n) : SubmitSettled(req, resp)
  \/ handleUndo
  \/ handleRedo
  \/ handleClearImage

MaskDisplayNext ==
  \/ startDrawing(1)
  \/ draw(1)
  \/ stopDrawing
  \/ handleClearMask
  \/ toggleBrushMode
  \/ EnableErase
  \/ SelectColor(MASK_COLORS[1])
  \/ Resize

\* The user always picks the same file.
MaskNext ==
  \/ handleImageUpload("fileA")
  \/ UploadSettled("fileA")
  \/ MaskEditNext
  \/ MaskDisplayNext

SpecMask == Init /\ [][MaskNext]_vars

\* A session run against a service that can give any of the answers of
\* Responses: the user picks the file, may mark a region with the brush,
\* and submits the instruction with or without a mask.
RemoteNext ==
  \/ handleImageUpload("fileA")
  \/ UploadSettled("fileA")
  \/ SetPrompt(<<" ", "a", " ">>)
  \/ (now <= MaskSubmits /\ handleSubmit)
  \/ \E req \in pending : \E resp \in Responses(req.n) : SubmitSettled(req, resp)
  \/ handleClearImage
  \/ toggleBrushMode
  \/ startDrawing(1)
  \/ draw(1)
  \/ stopDrawing

SpecRemote == Init /\ [][RemoteNext]_vars

\* The user picks either of two files.
StrokeNext ==
  \/ \E file \in {"fileA", "fileB"} : handleImageUpload(file)
  \/ \E file \in {"fileA", "fileB"} : UploadSettled(file)
  \/ MaskEditNext
  \/ MaskDisplayNext

SpecStroke == Init /\ [][StrokeNext]_vars

----------------------------------------------------------------------------
(* Properties *)

\* The step in which request req settles with an image and is committed
CommitOf(req) ==
  /\ req \in pending
  /\ req \notin pending'
  /\ \E resp \in Responses(req.n) :
       /\ editImageWithGemini(req.currentPrompt, req.image, req.mask, resp).ok
       /\ SubmitSettled(req, resp)

\* The step in which request req settles with a failure
FailureOf(req) ==
  /\ req \in pending
  /\ req \notin pending'
  /\ \E resp \in Responses(req.n) :
       /\ ~editImageWithGemini(req.currentPrompt, req.image, req.mask, resp).ok
       /\ SubmitSettled(req, resp)

\* C1: in every reachable state of the session the displayed image is
\* history[cursor] when the history is non-empty, and absent when it is empty.
C1_ImageIsHistoryAtCursor ==
  IF history = <<>>
  THEN image = null
  ELSE /\ historyIndex \in 0..(Len(history) - 1)
       /\ image = At(history, historyIndex)

\* An undo was performed while a submission is in flight.
C1_Witness ==
  /\ Len(history) >= 2
  /\ historyIndex = 0
  /\ pending # {}
  /\ image = At(history, 0)

\* C2: in every reachable state of the session the cursor is -1 exactly
\* when the history is empty, and otherwise 0 <= cursor < length.
C2_CursorInRange ==
  /\ (historyIndex = -1) <=> (history = <<>>)
  /\ history # <<>> => (0 <= historyIndex /\ historyIndex < Len(history))

\* Two edits were committed on top of an upload.
C2_Witness ==
  /\ Len(history) = 3
  /\ historyIndex = 2

\* C3 as stated: a commit keeps the entries 0..k of the history as it stands
\* immediately before the commit, k being the cursor immediately before the
\* commit, appends the result and puts the cursor on it.
C3_CommitTruncatesCurrentHistory ==
  [][\A req \in pending : CommitOf(req) =>
        /\ Len(history') = historyIndex + 2
        /\ \A i \in 0..historyIndex : At(history', i) = At(history, i)
        /\ At(history', historyIndex + 1) = image'
        /\ historyIndex' = Len(history') - 1]_vars

\* C3 amended: a commit keeps the entries 0..k of the history as it stood
\* when the submission was issued, k being the cursor at that moment,
\* appends the result and puts the cursor on it, so that redo is disabled
\* right after the commit.
C3_CommitTruncatesSubmittedHistory ==
  [][/\ \A req \in pending' \ pending :
          /\ req.history = history
          /\ req.historyIndex = historyIndex
     /\ \A req \in pending : CommitOf(req) =>
          /\ Len(history') = req.historyIndex + 2
          /\ \A i \in 0..req.historyIndex : At(history', i) = At(req.history, i)
          /\ At(history', req.historyIndex + 1) = image'
          /\ image'.base64 = <<"edit", req.n>>
          /\ historyIndex' = Len(history') - 1
          /\ ~canRedo']_vars

\* The second edit was committed after an undo of the first: the first
\* edit's entry is gone, both instructions are in the log.
C3_Witness ==
  /\ pending = {}
  /\ Len(messages) = 2
  /\ Len(history) = 2
  /\ historyIndex = 1
  /\ At(history, 1).base64 = <<"edit", 2>>

\* C4: the step that handles a failed remote call changes none of history,
\* cursor and displayed image; when the failure is handled right after the
\* submission was issued, the three are as they were at that moment.
C4_FailureLeavesHistory ==
  [][\A req \in pending : FailureOf(req) =>
        /\ history' = history
        /\ historyIndex' = historyIndex
        /\ image' = image
        /\ (submitOutcome = "issued" /\ req.n = now - 1) =>
              /\ history' = req.history
              /\ historyIndex' = req.historyIndex
              /\ image' = req.image]_vars

\* A remote call failed over a history of two entries.
C4_Witness ==
  /\ error = RemoteError
  /\ Len(history) = 2
  /\ pending = {}
  /\ ~loading

\* C5: the rollback of a failed submission removes from the log the record
\* that submission appended, and no other record.
C5_RollbackRemovesOwnRecord ==
  [][\A req \in pending : FailureOf(req) =>
        messages' = SelectSeq(messages, LAMBDA m : m # req.newMessage)]_vars

\* C6: at most one submission is in flight at any time.
C6_AtMostOneInFlight == Cardinality(pending) <= 1

\* C7: every change of the displayed image leaves the mask absent.
C7_ImageChangeClearsMask ==
  [][image' # image => mask' = null]_vars

\* A mask was present when a submission was issued; the displayed image has
\* changed since and the mask is absent.
C7_Witness ==
  /\ mask = null
  /\ \E req \in pending : req.mask # null /\ req.image # image

\* C8: a remote call issued with a present mask carries the image that was
\* displayed when the stroke that emitted the mask began.
C8_MaskSubmittedWithItsImage ==
  [][\A req \in pending' \ pending :
        req.mask # null => maskOver = req.image]_vars

\* C9: a stroke that ends on a fully transparent overlay emits an absent
\* mask: the current mask is never present with nothing marked on it.
C9_NoEmptyMask ==
  mask # null => ~IsFullyTransparent(mask.base64)

\* C10: a submission attempted without an image or with a blank instruction
\* is rejected with a user-visible error, and changes nothing else.
C10_RejectedWithError ==
  [][(/\ submitOutcome' \in {"ignored", "rejected"}
      /\ (image = null \/ Trim(prompt) = <<>>)) =>
        /\ error' # noError
        /\ UNCHANGED <<image, history, historyIndex, messages, mask, pending>>]_vars

\* C11: undo and redo never change the history; undo moves the cursor back
\* by exactly one when it is above 0 and redo moves it forward by exactly one
\* when it is below the last index, the displayed image following it; at the
\* bound each leaves history, cursor and image as they are; canUndo and
\* canRedo hold exactly when the step moves the cursor.
C11_StepsMoveCursorByOne ==
  [][/\ handleUndo =>
          /\ history' = history
          /\ canUndo <=> historyIndex' # historyIndex
          /\ IF historyIndex > 0
             THEN historyIndex' = historyIndex - 1 /\ image' = At(history, historyIndex')
             ELSE UNCHANGED <<historyIndex, image>>
     /\ handleRedo =>
          /\ history' = history
          /\ canRedo <=> historyIndex' # historyIndex
          /\ IF historyIndex < Len(history) - 1
             THEN historyIndex' = historyIndex + 1 /\ image' = At(history, historyIndex')
             ELSE UNCHANGED <<historyIndex, image>>]_vars

\* The cursor is at the middle of three entries: two results were committed
\* and a step moved the cursor off the last entry.
C11_Witness ==
  /\ Len(history) = 3
  /\ historyIndex = 1
  /\ image = At(history, 1)
  /\ canUndo /\ canRedo

\* C12: an upload that decodes to I leaves history = [I], cursor 0 and image
\* I, whatever the history was; clearing the image leaves the history empty,
\* the cursor at -1 and the image absent.
C12_UploadAndClearReset ==
  [][/\ \A file \in Files :
          UploadSettled(file) /\ fileToData(file) # null =>
            /\ history' = <<fileToData(file)>>
            /\ historyIndex' = 0
            /\ image' = fileToData(file)
     /\ handleClearImage =>
          /\ history' = <<>>
          /\ historyIndex' = -1
          /\ image' = null]_vars

\* The history holds the second file alone while a request issued on a
\* history of two entries is still in flight: that history was cleared or
\* replaced by the upload.
C12_Witness ==
  /\ history = <<fileToData("fileB")>>
  /\ historyIndex = 0
  /\ image = fileToData("fileB")
  /\ \E req \in pending : Len(req.history) >= 2

\* C13: when undo or redo moved the cursor while a submission was in flight
\* and the call succeeds, the new history is the history of the moment of
\* submission cut after the cursor of that moment, followed by the result,
\* and the cursor is on the result: the moves made meanwhile do not count.
C13_NavigationInFlightIgnored ==
  [][\A req \in pending :
        (CommitOf(req) /\ history = req.history /\ historyIndex # req.historyIndex) =>
          /\ history' = Slice(req.history, 0, req.historyIndex + 1) \o <<image'>>
          /\ image' = ImageData(<<"edit", req.n>>, req.image.mimeType)
          /\ historyIndex' = req.historyIndex + 1
          /\ historyIndex' = Len(history') - 1]_vars

\* A result has just been committed by a request whose history was still
\* the current one while the cursor had been moved off its place.
C13_Witness ==
  /\ settled.ok
  /\ settled.moved
  /\ Len(history) >= 2
  /\ image.base64 = <<"edit", settled.n>>

\* The history that request req was issued on has been replaced since: the
\* current history is empty or starts with another upload's entry.
StoreReset(req) ==
  \/ history = <<>>
  \/ At(history, 0) # At(req.history, 0)

\* C14: when the history was reset by a clear or a new upload while a
\* submission was in flight, the successful result of that submission is
\* discarded: history, cursor and image stay as the reset left them.
C14_StaleResultDiscarded ==
  [][\A req \in pending :
        (CommitOf(req) /\ StoreReset(req)) =>
          UNCHANGED <<history, historyIndex, image>>]_vars

\* C15: every submission in flight eventually settles, as a success or as a
\* failure; the step that settles it leaves loading off; a form submitted
\* with loading off, an image and a non-blank instruction is issued; and
\* loading never stays on for ever, whatever fails.
C15_SubmissionsResolve ==
  /\ \A n \in 1..MaxSubmits :
        (\E req \in pending : req.n = n) ~> (settled.n = n)
  /\ [][settled'.n # 0 => ~loading']_vars
  /\ [][(handleSubmit /\ ~loading /\ image # null /\ Trim(prompt) # <<>>) =>
          submitOutcome' = "issued"]_vars
  /\ loading ~> ~loading

\* A remote call has just failed; loading is off, the error is shown and
\* the image is still there to submit again.
C15_Witness ==
  /\ settled.n = 1
  /\ ~settled.ok
  /\ ~loading
  /\ error = RemoteError
  /\ image # null
  /\ pending = {}

\* The first candidate of the response has a part that carries an image.
HasImagePart(resp) ==
  /\ resp.kind = "response"
  /\ Len(resp.candidates) >= 1
  /\ \E i \in DOMAIN resp.candidates[1] : "inlineData" \in DOMAIN resp.candidates[1][i]

\* The payload of the first such part
FirstImagePayload(resp) ==
  LET parts == resp.candidates[1]
      first == CHOOSE i \in DOMAIN parts :
                 /\ "inlineData" \in DOMAIN parts[i]
                 /\ \A j \in 1..(i - 1) : "inlineData" \notin DOMAIN parts[j]
  IN parts[first].inlineData

\* The parts of a request that carry inline data
InlineParts(parts) == {i \in DOMAIN parts : "inlineData" \in DOMAIN parts[i]}

\* C16: for every request in flight and every answer of the service, the
\* remote edit either returns the payload of the first image part of the
\* first candidate, or fails with the one normalized error (the call threw,
\* or the first candidate has no image part), and the session shows exactly
\* that outcome; the request carries the mask as its second inline part
\* exactly when a mask is present, and otherwise the image alone.
C16_TwoOutcomesAndMaskIffPresent ==
  /\ [](\A req \in pending :
          LET parts == RequestParts(req.currentPrompt, req.image, req.mask)
          IN /\ parts[1] = InlinePart(req.image)
             /\ IF req.mask # null
                THEN InlineParts(parts) = {1, 2} /\ parts[2] = InlinePart(req.mask)
                ELSE InlineParts(parts) = {1}
             /\ \A resp \in Responses(req.n) :
                  LET r == editImageWithGemini(req.currentPrompt, req.image, req.mask, resp)
                  IN IF HasImagePart(resp)
                     THEN r.ok /\ r.data = FirstImagePayload(resp)
                     ELSE ~r.ok /\ r.message = RemoteError)
  /\ [][\A req \in pending : \A resp \in Responses(req.n) :
          SubmitSettled(req, resp) =>
            IF HasImagePart(resp)
            THEN image'.base64 = FirstImagePayload(resp) /\ error' = error
            ELSE error' = RemoteError /\ image' = image]_vars

\* The remote edit has just returned the payload of its request, which is
\* now the displayed image, and no error is shown.
C16_Witness ==
  /\ settled.ok
  /\ settled.n = 1
  /\ image.base64 = <<"edit", 1>>
  /\ error = noError
  /\ mask = null

\* C17 as stated: the length of the history never exceeds the number of
\* results committed so far.
C17_LengthAtMostCommits ==
  Len(history) <= commits

\* C17 amended: the length of the history never exceeds one plus the number
\* of results committed so far, the one being the entry of the upload.
C17_LengthAtMostCommitsPlusOne ==
  Len(history) <= commits + 1

\* Two results were committed on top of the upload and the cursor was moved
\* back: the history is as long as it can be.
C17_Witness ==
  /\ commits = 2
  /\ Len(history) = 3
  /\ historyIndex < 2

\* A pointer or touch event on the overlay: down, move, up or leave
PointerEvent ==
  \/ \E p \in Cells : startDrawing(p)
  \/ \E p \in Cells : draw(p)
  \/ stopDrawing

\* C18 as stated: while brush mode is off no pointer or touch event opens a
\* stroke, changes the overlay or changes the mask, also when a stroke is
\* open; a move with no open stroke changes nothing.
C18_PointerInertOutsideBrushMode ==
  [][/\ (PointerEvent /\ ~isBrushMode) =>
          /\ isDrawing' => isDrawing
          /\ canvas' = canvas
          /\ mask' = mask
     /\ \A p \in Cells : (draw(p) /\ ~isDrawing) =>
          UNCHANGED <<appVars, displayVars>>]_vars

\* C18 amended: while brush mode is off no pointer or touch event opens a
\* stroke or changes the overlay, and the mask changes only when an up or
\* leave ends a stroke that was still open, which emits the overlay as it
\* is; a move with no open stroke changes nothing.
C18_OnlyStrokeEndActsOutsideBrushMode ==
  [][/\ (PointerEvent /\ ~isBrushMode) =>
          /\ isDrawing' => isDrawing
          /\ canvas' = canvas
          /\ mask' # mask =>
                /\ isDrawing /\ ~isDrawing'
                /\ stopDrawing
                /\ mask' = ImageData(Base64Of(toDataURL(canvas)), "image/png")
     /\ \A p \in Cells : (draw(p) /\ ~isDrawing) =>
          UNCHANGED <<appVars, displayVars>>]_vars

\* Brush mode was switched off while a stroke that has painted is open.
C18_Witness ==
  /\ ~isBrushMode
  /\ isDrawing
  /\ strokeMode # "none"
  /\ canvas # BlankCanvas

\* C19: a size change that empties a painted overlay leaves the mask
\* absent: the serialization made before the resize is not kept.
C19_ResizeDropsMask ==
  [][(Resize /\ canvas # BlankCanvas) => mask' = null]_vars

\* One of the three operations that set erase mode
EntersBrushMode == toggleBrushMode /\ ~isBrushMode
SelectsColor == \E i \in DOMAIN MASK_COLORS : SelectColor(MASK_COLORS[i])

\* C20: the eraser button turns erase mode on, every entry into brush mode
\* and every color selection turns it off, and nothing else changes it; a
\* move of a stroke begun with erase mode on only empties regions of the
\* overlay, and a move of a stroke begun with it off only paints regions
\* in the color that was selected when the stroke began.
C20_EraseModeAndStrokeEffect ==
  [][/\ EnableErase => isErasing'
     /\ SelectsColor => ~isErasing'
     /\ EntersBrushMode => ~isErasing'
     /\ isErasing' # isErasing => (EnableErase \/ SelectsColor \/ EntersBrushMode)
     /\ \A p \in Cells : (draw(p) /\ isDrawing) =>
          \A c \in Cells :
            canvas'[c] # canvas[c] =>
              canvas'[c] = IF strokeMode = "erase" THEN Transparent ELSE strokeMode]_vars

\* C21: a redo that follows at once an undo that moved the cursor restores
\* the history, the cursor and the displayed image of before the undo, and
\* an undo that follows at once a redo that moved the cursor restores those
\* of before the redo; in between, the opposite step is available.
C21_UndoRedoInverse ==
  /\ [](stepped.kind = "undo" => canRedo)
  /\ [](stepped.kind = "redo" => canUndo)
  /\ [][/\ (handleRedo /\ stepped.kind = "undo") =>
            /\ history' = stepped.history
            /\ historyIndex' = stepped.historyIndex
            /\ image' = stepped.image
       /\ (handleUndo /\ stepped.kind = "redo") =>
            /\ history' = stepped.history
            /\ historyIndex' = stepped.historyIndex
            /\ image' = stepped.image]_vars

\* A redo has just followed an undo made at the middle of three entries and
\* has brought the cursor and the image back there.
C21_Witness ==
  /\ stepped.kind = "redo"
  /\ stepped.after = "undo"
  /\ Len(history) = 3
  /\ historyIndex = 1
  /\ image = At(history, 1)

====
